---- MODULE Spec2Model ----
(***************************************************************************)
(* AirSight dashboard, modelled as state machines, one specification per   *)
(* component:                                                              *)
(*   Spec        the saved-region store (the useDashboardRegions hook)     *)
(*   SpecSearch  the search box of LocationPanel, with the store           *)
(*   SpecGeo     the device position (useCurrentLocation) and the effects  *)
(*               and handlers of Dashboard, with the store                 *)
(*   SpecMap     the map (AqiMap), its selection an input                  *)
(*   SpecStorage the store with the storage that useLocalStorage keeps     *)
(*               under it, and the reload of the page                      *)
(*   SpecFixes   the store fed with device positions close together      *)
(* SpecGeoFair and SpecMapFair add the scheduling of callbacks and effects, *)
(* SpecMapCalls a direct call of the map's recenter handler.                *)
(* The storage is read when the hook is constructed and by nothing else,   *)
(* so the other specifications leave it aside.                             *)
(* Each has one action per handler or effect.  React runs the effects of a *)
(* committed render whose dependencies changed before the next user event  *)
(* is handled.                                                             *)
(*                                                                         *)
(* Coordinates are integers in units of 1e-4 degree (40.7128 is 407128).   *)
(* A region id is a triple <<kind, a, b>>: the string the code builds      *)
(* (a and b of a "geo" id are the texts of toFixed(3), sign and digits)    *)
(* ("default-nyc", "geo:<lat>,<lon>", "search-<name>-<ms>") split into its *)
(* parts.  null is NullId for an id and NullRegion for a region.           *)
(*                                                                         *)
(* The regions the operations are called with are the ones the dashboard   *)
(* builds: a picked search result, whose id ends in Date.now() and so is   *)
(* an id no earlier region has, and a geolocation fix, whose id is its     *)
(* coordinates rounded to 3 decimals.  The default region enters the list  *)
(* through the bootstrap effect alone.                                     *)
(*                                                                         *)
(* Three history variables record what the operations of the store did; no *)
(* operation reads them.  lastOp names the handler of the latest step.     *)
(* justActivated is the id that the latest operation activated as a saved  *)
(* region (activate with persist, selectExisting of a present id,          *)
(* persistTemporary, the seeding of the default), NullId when the latest   *)
(* operation did none of these.  upserted lists the saved ids by the time  *)
(* of their latest upsert, latest first.                                   *)
(***************************************************************************)
EXTENDS Integers, Sequences, FiniteSets, TLC

VARIABLES
    regions,        \* useLocalStorage("airsight:regions"): the saved list
    activeId,       \* useLocalStorage("airsight:regions:active")
    temporary,      \* useState: the unsaved selection, or NullRegion
    effectPending,  \* a render was committed and its effect has not run yet
    now,            \* Date.now(), counted in picked search results
    lastOp,         \* history: the handler the latest step ran
    justActivated,  \* history: the saved region the latest operation activated
    upserted,       \* history: the saved ids, the most recently upserted first
    \* LocationPanel, the search box
    mounted,        \* the panel has not been torn down
    searchQuery,    \* useState: the value of the input
    searchResults,  \* useState: the result list on display
    isSearching,    \* useState: the searching flag
    showResults,    \* useState: the result list is open
    searchTimeout,  \* searchTimeoutRef: the pending timer, or NoTimer
    timers,         \* the timers set with setTimeout and neither fired nor cleared
    inflight,       \* the fetches that have not been answered yet
    clock,          \* the time in ms since the panel was mounted
    keys,           \* history: the keystrokes, each with its time
    issued,         \* history: the search requests, each with its time
    lastStep,       \* history: the last step of performSearch, and the list before it
    \* useCurrentLocation, the device position
    hasGeolocation, \* "geolocation" in navigator
    coords,         \* useState: the latest position, None before the first
    locating,       \* useState: the locating flag
    pending,        \* the getCurrentPosition calls that have not called back
    requested,      \* history: the number of position requests made
    lastAnswer,     \* history: how the latest position request ended
    \* AqiMap, the map
    center,         \* the prop: the coordinates of the selection, or None
    mapCenter,      \* useState: the centre the map is to show
    shouldUpdateCenter, \* useState
    userHasPanned,  \* useState
    view,           \* the centre of the Leaflet map, None without a map
    ready,          \* the children of MapContainer are mounted
    listening,      \* a movestart listener is attached to the map
    phase,          \* "idle", or a render to commit, or its effects to run
    ctlDue,         \* mapCenter was set, or MapCenterController has mounted
    aqiDue,         \* center is another object than in the render before
    prevShould,     \* shouldUpdateCenter in the render before
    prevPanned,     \* userHasPanned in the render before
    lastMove,       \* history: who moved the view last
    gesture,        \* history: the latest of the user's pan and recenter
    userView,       \* history: where the user's latest pan left the map
    \* the persistent storage under useLocalStorage
    storedRegions,  \* the value stored under "airsight:regions"
    storedActive,   \* the value stored under "airsight:regions:active"
    savedIds,       \* history: the ids ever upserted by an operation
    tempIds         \* history: the ids ever activated without persist

hook == <<regions, activeId, temporary, effectPending, now, lastOp, justActivated, upserted>>

panel == <<mounted, searchQuery, searchResults, isSearching, showResults,
           searchTimeout, timers, inflight, clock, keys, issued, lastStep>>

geo == <<hasGeolocation, coords, locating, pending, requested, lastAnswer>>

map == <<center, mapCenter, shouldUpdateCenter, userHasPanned, view, ready, listening,
         phase, ctlDue, aqiDue, prevShould, prevPanned, lastMove, gesture, userView>>

disk == <<storedRegions, storedActive, savedIds, tempIds>>

outside == <<panel, geo, map, disk>>

vars == <<hook, panel, geo, map, disk>>

store == <<regions, activeId, temporary>>

----------------------------------------------------------------------------
(* Constants of the program *)

MAX_REGIONS == 6

NullId == <<"null", 0, 0>>

NullRegion == [id |-> NullId, lat |-> 0, lon |-> 0]

DEFAULT_REGION == [id |-> <<"default-nyc", 0, 0>>, lat |-> 407128, lon |-> -740060]

----------------------------------------------------------------------------
(* Constants and bounds of the search box *)

DEBOUNCE_MS == 300

MIN_QUERY == 2

\* the values typed into the input
Inputs == {"a", "ab", "abc"}

\* time advances in steps of TickMs up to MaxClock; MaxKeys keystrokes are made
TickMs == 100

MaxClock == 800

MaxKeys == 3

\* searchTimeoutRef with no timer pending
NoTimer == [value |-> "", due |-> -1]

\* data.results of the place-name service for a query that matches
Places(query) == <<query>>

\* how a fetch ends: with places, with an empty list, or with a failure
\* (network error, status not ok, body that does not parse)
Outcomes == {"ok", "empty", "error"}

-----------------------------------------------------------------------------
(* Constants and bounds of the device position *)

\* a value that may be null: None, or Some(x)
None == <<>>

Some(x) == <<x>>

NYC_COORDINATES == <<407128, -740060>>

\* position requests made in a run
MaxRequests == 3

\* the places a selection or the view of the map can be at
MapPoints == {NYC_COORDINATES, <<340522, -1182437>>, <<418781, -876298>>}

-----------------------------------------------------------------------------
(* The regions the environment offers to the store *)

\* The search results picked in a run: Date.now() is capped at this.
MaxPicks == 6

\* x.toFixed(3) of a coordinate given in 1e-4 degree, as the text it is: the
\* sign, "-" for every x below zero, also one that rounds to zero
\* ("-0.000"), and the digits as a number of 1e-3 degree, the nearest one to
\* the magnitude of x, the larger one of two equally near.
ToFixed3(x) ==
    IF x >= 0 THEN <<"", (x + 5) \div 10>> ELSE <<"-", (-x + 5) \div 10>>

regionFromCoordinates(lat, lon) ==
    [id |-> <<"geo", ToFixed3(lat), ToFixed3(lon)>>, lat |-> lat, lon |-> lon]

\* The region handleLocationSelect builds of a picked search result at time t:
\* its id ends in Date.now(), so every pick has an id no earlier region has.
SearchRegion(t) ==
    [id |-> <<"search", t, t>>, lat |-> 300000 + 10000 * t, lon |-> -900000 - 10000 * t]

\* Two fixes that agree to 3 decimal places, so two regions with one id.
GeoFixes == {<<407128, -740060>>, <<407131, -740058>>}

GeoRegions == {regionFromCoordinates(f[1], f[2]) : f \in GeoFixes}

\* every id a region can have
CandidateIds ==
    {DEFAULT_REGION.id} \cup {r.id : r \in GeoRegions}
    \cup {SearchRegion(t).id : t \in 1..MaxPicks}

----------------------------------------------------------------------------
(* Helpers on lists *)

\* prev.filter((item) => item.id !== id)
RECURSIVE WithoutId(_, _)
WithoutId(list, id) ==
    IF list = <<>> THEN <<>>
    ELSE IF Head(list).id = id THEN WithoutId(Tail(list), id)
         ELSE <<Head(list)>> \o WithoutId(Tail(list), id)

\* list.slice(0, n)
Slice0(list, n) == IF Len(list) <= n THEN list ELSE SubSeq(list, 1, n)

HasId(list, id) == \E i \in 1..Len(list) : list[i].id = id

\* regions.find((region) => region.id === id) ?? null
Find(list, id) ==
    IF HasId(list, id)
    THEN list[CHOOSE i \in 1..Len(list) :
                 list[i].id = id /\ \A j \in 1..(i - 1) : list[j].id # id]
    ELSE NullRegion

Ids(list) == [i \in 1..Len(list) |-> list[i].id]

----------------------------------------------------------------------------
(* The hook *)

\* upsertRegion without the truncation to MAX_REGIONS
upsertRegion_NoCap(prev, region) ==
    <<region>> \o WithoutId(prev, region.id)

\* upsertRegion that leaves a region already saved where it is
upsertRegion_KeepPlace(prev, region) ==
    IF HasId(prev, region.id)
    THEN [i \in 1..Len(prev) |-> IF prev[i].id = region.id THEN region ELSE prev[i]]
    ELSE Slice0(<<region>> \o prev, MAX_REGIONS)

\* upsertRegion without the removal of the entry that has the id already
upsertRegion_NoFilter(prev, region) ==
    Slice0(<<region>> \o prev, MAX_REGIONS)

\* upsertRegion truncating to one entry fewer
upsertRegion_CapOffByOne(prev, region) ==
    Slice0(<<region>> \o WithoutId(prev, region.id), MAX_REGIONS - 1)

\* upsertRegion that puts the region last, where the cap cuts it off
upsertRegion_EvictsNewest(prev, region) ==
    Slice0(WithoutId(prev, region.id) \o <<region>>, MAX_REGIONS)

\* the updater of upsertRegion
upsertRegion(prev, region) ==
    Slice0(<<region>> \o WithoutId(prev, region.id), MAX_REGIONS)

\* activeRegion that looks the temporary selection's id up in the saved list
activeRegion_SavedFirst ==
    IF temporary # NullRegion
    THEN (IF HasId(regions, temporary.id) THEN Find(regions, temporary.id) ELSE temporary)
    ELSE IF activeId = NullId THEN NullRegion
    ELSE Find(regions, activeId)

\* the derived read: currentSelection()
activeRegion ==
    IF temporary # NullRegion THEN temporary
    ELSE IF activeId = NullId THEN NullRegion
    ELSE Find(regions, activeId)

isTemporary ==
    temporary # NullRegion /\ (activeId = NullId \/ temporary.id # activeId)

\* history: the upsert order after region was upserted and the list became list
UpsertedAfter(region, list) ==
    SelectSeq(<<region.id>> \o SelectSeq(upserted, LAMBDA x : x # region.id),
              LAMBDA x : HasId(list, x))

\* history: what the handler op, called with id, found when it began
Called(op, id) ==
    [op |-> op, id |-> id, saved |-> HasId(regions, id),
     active |-> (activeId = id), len |-> Len(regions)]

\* the search box after construction
PanelInit ==
    /\ mounted = TRUE
    /\ searchQuery = ""
    /\ searchResults = <<>>
    /\ isSearching = FALSE
    /\ showResults = FALSE
    /\ searchTimeout = NoTimer
    /\ timers = {}
    /\ inflight = {}
    /\ clock = 0
    /\ keys = <<>>
    /\ issued = <<>>
    /\ lastStep = [what |-> "none", before |-> <<>>]

\* useCurrentLocation after construction
GeoInit ==
    /\ coords = None
    /\ locating = FALSE
    /\ pending = {}
    /\ requested = 0
    /\ lastAnswer = "none"

\* useDashboardRegions after construction, with nothing in localStorage
HookInit ==
    /\ regions = <<>>
    /\ activeId = NullId
    /\ temporary = NullRegion
    /\ effectPending = TRUE
    /\ now = 0
    /\ lastOp = [op |-> "mount", id |-> NullId, saved |-> FALSE, active |-> FALSE, len |-> 0]
    /\ justActivated = NullId
    /\ upserted = <<>>

\* the storage of a browser that has not run the dashboard before
DiskInit ==
    /\ storedRegions = <<>>
    /\ storedActive = NullId
    /\ savedIds = {}
    /\ tempIds = {}

\* AqiMap after its first render, with its effects to run
MapInit ==
    /\ center = None
    /\ mapCenter = NYC_COORDINATES
    /\ shouldUpdateCenter = TRUE
    /\ userHasPanned = FALSE
    /\ view = None
    /\ ready = FALSE
    /\ listening = FALSE
    /\ phase = "setups"
    /\ ctlDue = FALSE
    /\ aqiDue = TRUE
    /\ prevShould = TRUE
    /\ prevPanned = FALSE
    /\ lastMove = "none"
    /\ gesture = "none"
    /\ userView = None

Init ==
    /\ HookInit
    /\ PanelInit
    /\ GeoInit
    /\ MapInit
    /\ DiskInit
    /\ hasGeolocation = TRUE

\* the bootstrap effect without setRegions([DEFAULT_REGION])
Bootstrap_NoSeedList ==
    /\ effectPending
    /\ lastOp' = [op |-> "Bootstrap", id |-> NullId, saved |-> FALSE, active |-> FALSE, len |-> 0]
    /\ IF temporary # NullRegion \/ activeId # NullId
       THEN /\ effectPending' = FALSE
            /\ UNCHANGED <<store, justActivated, upserted>>
       ELSE IF Len(regions) > 0
       THEN /\ activeId' = regions[1].id
            /\ effectPending' = TRUE
            /\ UNCHANGED <<regions, temporary, justActivated, upserted>>
       ELSE /\ activeId' = DEFAULT_REGION.id
            /\ effectPending' = TRUE
            /\ justActivated' = DEFAULT_REGION.id
            /\ UNCHANGED <<regions, temporary, upserted>>

\* the bootstrap effect that seeds the default and does nothing else
Bootstrap_SeedOnly ==
    /\ effectPending
    /\ lastOp' = [op |-> "Bootstrap", id |-> NullId, saved |-> FALSE, active |-> FALSE, len |-> 0]
    /\ IF temporary # NullRegion \/ activeId # NullId \/ Len(regions) > 0
       THEN /\ effectPending' = FALSE
            /\ UNCHANGED <<store, justActivated, upserted>>
       ELSE /\ activeId' = DEFAULT_REGION.id
            /\ regions' = <<DEFAULT_REGION>>
            /\ effectPending' = TRUE
            /\ justActivated' = DEFAULT_REGION.id
            /\ upserted' = <<DEFAULT_REGION.id>>
            /\ UNCHANGED temporary

\* the bootstrap effect
Bootstrap ==
    /\ effectPending
    /\ lastOp' = [op |-> "Bootstrap", id |-> NullId, saved |-> FALSE, active |-> FALSE, len |-> 0]
    /\ IF temporary # NullRegion \/ activeId # NullId
       THEN /\ effectPending' = FALSE
            /\ UNCHANGED <<store, justActivated, upserted>>
       ELSE IF Len(regions) > 0
       THEN /\ activeId' = regions[1].id
            /\ effectPending' = TRUE
            /\ UNCHANGED <<regions, temporary, justActivated, upserted>>
       ELSE /\ activeId' = DEFAULT_REGION.id
            /\ regions' = <<DEFAULT_REGION>>
            /\ effectPending' = TRUE
            /\ justActivated' = DEFAULT_REGION.id
            /\ upserted' = <<DEFAULT_REGION.id>>
            /\ UNCHANGED temporary

\* activateRegion that forgets setActiveId(region.id) when it persists
activateRegion_NoSetActive(region, persist) ==
    /\ ~effectPending
    /\ lastOp' = Called("activateRegion", region.id)
    /\ IF ~persist
       THEN /\ temporary' = region
            /\ activeId' = NullId
            /\ justActivated' = NullId
            /\ UNCHANGED <<regions, upserted>>
       ELSE /\ temporary' = NullRegion
            /\ regions' = upsertRegion(regions, region)
            /\ justActivated' = region.id
            /\ upserted' = UpsertedAfter(region, regions')
            /\ UNCHANGED activeId
    /\ effectPending' = TRUE

\* activateRegion that leaves the active id set when it does not persist
activateRegion_TemporaryKeepsActive(region, persist) ==
    /\ ~effectPending
    /\ lastOp' = Called("activateRegion", region.id)
    /\ IF ~persist
       THEN /\ temporary' = region
            /\ justActivated' = NullId
            /\ UNCHANGED <<regions, activeId, upserted>>
       ELSE /\ temporary' = NullRegion
            /\ regions' = upsertRegion(regions, region)
            /\ activeId' = region.id
            /\ justActivated' = region.id
            /\ upserted' = UpsertedAfter(region, regions')
    /\ effectPending' = TRUE

\* activateRegion that saves the region also when persist is false
activateRegion_TemporaryUpserts(region, persist) ==
    /\ ~effectPending
    /\ lastOp' = Called("activateRegion", region.id)
    /\ IF ~persist
       THEN /\ temporary' = region
            /\ regions' = upsertRegion(regions, region)
            /\ activeId' = NullId
            /\ justActivated' = NullId
            /\ upserted' = UpsertedAfter(region, regions')
       ELSE /\ temporary' = NullRegion
            /\ regions' = upsertRegion(regions, region)
            /\ activeId' = region.id
            /\ justActivated' = region.id
            /\ upserted' = UpsertedAfter(region, regions')
    /\ effectPending' = TRUE

activateRegion(region, persist) ==
    /\ ~effectPending
    /\ lastOp' = Called("activateRegion", region.id)
    /\ IF ~persist
       THEN /\ temporary' = region
            /\ activeId' = NullId
            /\ justActivated' = NullId
            /\ UNCHANGED <<regions, upserted>>
       ELSE /\ temporary' = NullRegion
            /\ regions' = upsertRegion(regions, region)
            /\ activeId' = region.id
            /\ justActivated' = region.id
            /\ upserted' = UpsertedAfter(region, regions')
    /\ effectPending' = TRUE

\* selectExisting without the check that the id is saved
selectExisting_NoCheck(id) ==
    /\ ~effectPending
    /\ temporary' = NullRegion
    /\ activeId' = id
    /\ effectPending' = TRUE
    /\ lastOp' = Called("selectExisting", id)
    /\ justActivated' = id
    /\ UNCHANGED <<regions, upserted>>

\* selectExisting without setTemporary(null)
selectExisting_KeepsTemporary(id) ==
    /\ ~effectPending
    /\ IF ~HasId(regions, id)
       THEN UNCHANGED vars
       ELSE /\ activeId' = id
            /\ effectPending' = TRUE
            /\ lastOp' = Called("selectExisting", id)
            /\ justActivated' = id
            /\ UNCHANGED <<regions, temporary, upserted>>

selectExisting(id) ==
    /\ ~effectPending
    /\ IF ~HasId(regions, id)
       THEN UNCHANGED vars
       ELSE /\ temporary' = NullRegion
            /\ activeId' = id
            /\ effectPending' = TRUE
            /\ lastOp' = Called("selectExisting", id)
            /\ justActivated' = id
            /\ UNCHANGED <<regions, upserted>>

\* removeRegion without the cascade of the active id
removeRegion_KeepActive(id) ==
    /\ ~effectPending
    /\ lastOp' = Called("removeRegion", id)
    /\ regions' = WithoutId(regions, id)
    /\ temporary' = IF temporary.id = id THEN NullRegion ELSE temporary
    /\ effectPending' = TRUE
    /\ justActivated' = NullId
    /\ upserted' = SelectSeq(upserted, LAMBDA x : x # id)
    /\ UNCHANGED activeId

\* removeRegion taking the fallback from the list before the removal
removeRegion_FallbackFromPrev(id) ==
    /\ ~effectPending
    /\ lastOp' = Called("removeRegion", id)
    /\ regions' = WithoutId(regions, id)
    /\ activeId' = IF activeId = id
                   THEN (IF Len(regions) > 0 THEN regions[1].id ELSE NullId)
                   ELSE activeId
    /\ temporary' = IF temporary.id = id THEN NullRegion ELSE temporary
    /\ effectPending' = TRUE
    /\ justActivated' = NullId
    /\ upserted' = SelectSeq(upserted, LAMBDA x : x # id)

\* removeRegion resetting the active id whether or not it was the removed one
removeRegion_AlwaysFallback(id) ==
    /\ ~effectPending
    /\ lastOp' = Called("removeRegion", id)
    /\ LET next == WithoutId(regions, id)
       IN /\ regions' = next
          /\ activeId' = IF Len(next) > 0 THEN next[1].id ELSE NullId
    /\ temporary' = IF temporary.id = id THEN NullRegion ELSE temporary
    /\ effectPending' = TRUE
    /\ justActivated' = NullId
    /\ upserted' = SelectSeq(upserted, LAMBDA x : x # id)

\* removeRegion that clears the temporary selection whatever its id
removeRegion_ClearsTemporary(id) ==
    /\ ~effectPending
    /\ lastOp' = Called("removeRegion", id)
    /\ LET next == WithoutId(regions, id)
       IN /\ regions' = next
          /\ activeId' = IF activeId = id
                         THEN (IF Len(next) > 0 THEN next[1].id ELSE NullId)
                         ELSE activeId
    /\ temporary' = NullRegion
    /\ effectPending' = TRUE
    /\ justActivated' = NullId
    /\ upserted' = SelectSeq(upserted, LAMBDA x : x # id)

removeRegion(id) ==
    /\ ~effectPending
    /\ lastOp' = Called("removeRegion", id)
    /\ LET next == WithoutId(regions, id)
       IN /\ regions' = next
          /\ activeId' = IF activeId = id
                         THEN (IF Len(next) > 0 THEN next[1].id ELSE NullId)
                         ELSE activeId
    /\ temporary' = IF temporary.id = id THEN NullRegion ELSE temporary
    /\ effectPending' = TRUE
    /\ justActivated' = NullId
    /\ upserted' = SelectSeq(upserted, LAMBDA x : x # id)

\* persistTemporary that saves the region and leaves the active id alone
persistTemporary_NoSetActive ==
    /\ ~effectPending
    /\ IF temporary = NullRegion
       THEN UNCHANGED vars
       ELSE /\ temporary' = NullRegion
            /\ regions' = upsertRegion(regions, temporary)
            /\ effectPending' = TRUE
            /\ lastOp' = Called("persistTemporary", temporary.id)
            /\ justActivated' = temporary.id
            /\ upserted' = UpsertedAfter(temporary, regions')
            /\ UNCHANGED activeId

persistTemporary ==
    /\ ~effectPending
    /\ IF temporary = NullRegion
       THEN UNCHANGED vars
       ELSE /\ temporary' = NullRegion
            /\ regions' = upsertRegion(regions, temporary)
            /\ activeId' = temporary.id
            /\ effectPending' = TRUE
            /\ lastOp' = Called("persistTemporary", temporary.id)
            /\ justActivated' = temporary.id
            /\ upserted' = UpsertedAfter(temporary, regions')

\* clearTemporary without the fallback to the first saved region
clearTemporary_NoFallback ==
    /\ ~effectPending
    /\ lastOp' = Called("clearTemporary", NullId)
    /\ temporary' = NullRegion
    /\ effectPending' = TRUE
    /\ justActivated' = NullId
    /\ UNCHANGED <<regions, activeId, upserted>>

clearTemporary ==
    /\ ~effectPending
    /\ lastOp' = Called("clearTemporary", NullId)
    /\ temporary' = NullRegion
    /\ activeId' = IF activeId = NullId /\ Len(regions) > 0
                   THEN regions[1].id ELSE activeId
    /\ effectPending' = TRUE
    /\ justActivated' = NullId
    /\ UNCHANGED <<regions, upserted>>

\* a search result is picked, or a geolocation fix arrives, and is activated
PickSearch(persist) ==
    /\ now < MaxPicks
    /\ now' = now + 1
    /\ activateRegion(SearchRegion(now + 1), persist)

UseGeo(region, persist) ==
    /\ activateRegion(region, persist)
    /\ UNCHANGED now

Next ==
    \/ Bootstrap /\ UNCHANGED <<now, outside>>
    \/ \E persist \in BOOLEAN : PickSearch(persist) /\ UNCHANGED outside
    \/ \E r \in GeoRegions, persist \in BOOLEAN : UseGeo(r, persist) /\ UNCHANGED outside
    \/ \E id \in CandidateIds : selectExisting(id) /\ UNCHANGED <<now, outside>>
    \/ \E id \in CandidateIds : removeRegion(id) /\ UNCHANGED <<now, outside>>
    \/ persistTemporary /\ UNCHANGED <<now, outside>>
    \/ clearTemporary /\ UNCHANGED <<now, outside>>

Spec == Init /\ [][Next]_vars

-----------------------------------------------------------------------------
(* The ids of device positions.  Fixes on both sides of the Greenwich      *)
(* meridian and of a rounding boundary are made the selection, as           *)
(* handleUseCurrent does, and saved with persistTemporary.                   *)

\* fixes at the Royal Observatory, in 1e-4 degree: longitudes -0.0001,
\* 0.0001, 0.0004 and 0.0006, and a latitude 0.0005 further north
NearFixes ==
    {<<514779, -1>>, <<514779, 1>>, <<514779, 4>>, <<514779, 6>>, <<514784, 4>>}

NextFixes ==
    \/ Bootstrap /\ UNCHANGED <<now, outside>>
    \/ \E f \in NearFixes :
          UseGeo(regionFromCoordinates(f[1], f[2]), FALSE) /\ UNCHANGED outside
    \/ persistTemporary /\ UNCHANGED <<now, outside>>

SpecFixes == Init /\ [][NextFixes]_vars

-----------------------------------------------------------------------------
(* The store with its storage.  useLocalStorage keeps each of regions and   *)
(* activeId under a key of the storage: the key is read when the hook is    *)
(* constructed and written on every mutation, and a write may fail, which   *)
(* leaves the key as it was.  temporary is useState and has no key.         *)

\* the search results picked in SpecStorage
MaxStoredPicks == 1

\* the region of the one device position used in SpecStorage
StoredGeoRegions == {regionFromCoordinates(407131, -740058)}

\* the ids of the regions of SpecStorage
StoredIds ==
    {DEFAULT_REGION.id} \cup {r.id : r \in StoredGeoRegions}
    \cup {SearchRegion(t).id : t \in 1..MaxStoredPicks}

\* a write that, when it fails, keeps the step from changing the state
WriteThrough_RollsBack(okRegions, okActive) ==
    /\ storedRegions' = (IF okRegions THEN regions' ELSE storedRegions)
    /\ storedActive' = (IF okActive THEN activeId' ELSE storedActive)
    /\ ~okRegions => regions' = regions
    /\ ~okActive => activeId' = activeId

\* the writes of a mutation: each key gets the new value, or is left as it
\* was when its write fails
WriteThrough(okRegions, okActive) ==
    /\ storedRegions' = (IF okRegions THEN regions' ELSE storedRegions)
    /\ storedActive' = (IF okActive THEN activeId' ELSE storedActive)

\* history: the region id was activated, with or without persist
Noted(id, persist) ==
    /\ savedIds' = (IF persist THEN savedIds \cup {id} ELSE savedIds)
    /\ tempIds' = (IF persist THEN tempIds ELSE tempIds \cup {id})

\* the page is loaded again: the hook is constructed from the storage
Reload ==
    /\ ~effectPending
    /\ regions' = storedRegions
    /\ activeId' = storedActive
    /\ temporary' = NullRegion
    /\ effectPending' = TRUE
    /\ lastOp' = Called("reload", temporary.id)
    /\ justActivated' = NullId
    /\ upserted' = Ids(storedRegions)
    /\ UNCHANGED <<now, disk>>

\* the mutations of the store, each with its writes
Mutation(okRegions, okActive) ==
    \/ /\ Bootstrap
       /\ WriteThrough(okRegions, okActive)
       /\ UNCHANGED <<now, savedIds, tempIds>>
    \/ \E persist \in BOOLEAN :
          /\ now < MaxStoredPicks
          /\ PickSearch(persist)
          /\ WriteThrough(okRegions, okActive)
          /\ Noted(SearchRegion(now + 1).id, persist)
    \/ \E r \in StoredGeoRegions :
          /\ UseGeo(r, FALSE)
          /\ WriteThrough(okRegions, okActive)
          /\ Noted(r.id, FALSE)
    \/ \E id \in StoredIds :
          /\ selectExisting(id)
          /\ WriteThrough(okRegions, okActive)
          /\ UNCHANGED <<now, savedIds, tempIds>>
    \/ \E id \in StoredIds :
          /\ removeRegion(id)
          /\ WriteThrough(okRegions, okActive)
          /\ UNCHANGED <<now, savedIds, tempIds>>
    \/ /\ temporary # NullRegion
       /\ persistTemporary
       /\ WriteThrough(okRegions, okActive)
       /\ Noted(temporary.id, TRUE)
       /\ UNCHANGED now

NextStorage ==
    \/ \E okRegions, okActive \in BOOLEAN :
          Mutation(okRegions, okActive) /\ UNCHANGED <<panel, geo, map>>
    \/ Reload /\ UNCHANGED <<panel, geo, map>>

SpecStorage == Init /\ [][NextStorage]_vars

-----------------------------------------------------------------------------
(* The search box of LocationPanel.  A keystroke restarts the debounce      *)
(* timer; the timer, when due, runs performSearch; the answer of a fetch    *)
(* arrives at any later moment, in any order.  Time is counted by clock: a  *)
(* timer fires at the time it is due, so time does not pass a due timer.    *)
(* A keystroke made at the very time a timer is due and the firing of that  *)
(* timer are handled in either order.                                       *)

\* the requests in flight, oldest first, as their sequence numbers
InFlightNumbers == {r.n : r \in inflight}

\* performSearch without the test of the length of the query
performSearch_NoMinimum(query) ==
    [results |-> searchResults, open |-> showResults, searching |-> TRUE, fetch |-> TRUE]

\* performSearch up to its await: [results, open, searching, fetch]
performSearch(query) ==
    IF Len(query) < MIN_QUERY
    THEN [results |-> <<>>, open |-> FALSE, searching |-> isSearching, fetch |-> FALSE]
    ELSE [results |-> searchResults, open |-> showResults, searching |-> TRUE, fetch |-> TRUE]

\* performSearch whose catch block leaves the list as it is
Answered_KeepsListOnError(query, outcome) ==
    IF outcome = "ok"
    THEN [results |-> Places(query), open |-> Len(Places(query)) > 0]
    ELSE [results |-> searchResults, open |-> showResults]

\* performSearch after its await: [results, open] for the answer of the fetch
Answered(query, outcome) ==
    IF outcome = "ok"
    THEN [results |-> Places(query), open |-> Len(Places(query)) > 0]
    ELSE [results |-> <<>>, open |-> FALSE]

\* handleSearchChange without clearTimeout
handleSearchChange_NoClear(value) ==
    /\ mounted
    /\ Len(keys) < MaxKeys
    /\ value # searchQuery
    /\ searchQuery' = value
    /\ searchTimeout' = [value |-> value, due |-> clock + DEBOUNCE_MS]
    /\ timers' = timers \cup {searchTimeout'}
    /\ keys' = Append(keys, [at |-> clock, value |-> value])
    /\ UNCHANGED <<mounted, searchResults, isSearching, showResults, inflight, clock, issued, lastStep>>

\* handleSearchChange that arms the timer with the value of the last render
handleSearchChange_StaleValue(value) ==
    /\ mounted
    /\ Len(keys) < MaxKeys
    /\ value # searchQuery
    /\ searchQuery' = value
    /\ searchTimeout' = [value |-> searchQuery, due |-> clock + DEBOUNCE_MS]
    /\ timers' = (timers \ {searchTimeout}) \cup {searchTimeout'}
    /\ keys' = Append(keys, [at |-> clock, value |-> value])
    /\ UNCHANGED <<mounted, searchResults, isSearching, showResults, inflight, clock, issued, lastStep>>

\* onChange of the input
handleSearchChange(value) ==
    /\ mounted
    /\ Len(keys) < MaxKeys
    /\ value # searchQuery
    /\ searchQuery' = value
    /\ searchTimeout' = [value |-> value, due |-> clock + DEBOUNCE_MS]
    /\ timers' = (timers \ {searchTimeout}) \cup {searchTimeout'}
    /\ keys' = Append(keys, [at |-> clock, value |-> value])
    /\ UNCHANGED <<mounted, searchResults, isSearching, showResults, inflight, clock, issued, lastStep>>

\* the debounce timer fires: performSearch(value) up to its await
TimerFires ==
    \E timer \in timers :
        /\ timer.due <= clock
        /\ LET go == performSearch(timer.value) IN
              /\ searchResults' = go.results
              /\ showResults' = go.open
              /\ isSearching' = go.searching
              /\ inflight' = IF go.fetch
                             THEN inflight \cup {[n |-> Len(issued) + 1, query |-> timer.value]}
                             ELSE inflight
              /\ issued' = IF go.fetch
                           THEN Append(issued, [at |-> clock, query |-> timer.value])
                           ELSE issued
              /\ lastStep' = [what |-> IF go.fetch THEN "sent" ELSE "short", before |-> searchResults]
        /\ timers' = timers \ {timer}
        /\ searchTimeout' = IF timer = searchTimeout THEN NoTimer ELSE searchTimeout
        /\ UNCHANGED <<mounted, searchQuery, clock, keys>>

\* the answer of a fetch applied to the state of a component torn down
SearchResponse_AfterTeardown(req, outcome) ==
    /\ req \in inflight
    /\ inflight' = inflight \ {req}
    /\ searchResults' = Answered(req.query, outcome).results
    /\ showResults' = Answered(req.query, outcome).open
    /\ isSearching' = FALSE
    /\ lastStep' = [what |-> IF mounted THEN outcome ELSE "late", before |-> searchResults]
    /\ UNCHANGED <<mounted, searchQuery, searchTimeout, timers, clock, keys, issued>>

\* the answer of a fetch arrives: performSearch from its await to its end
SearchResponse(req, outcome) ==
    /\ req \in inflight
    /\ inflight' = inflight \ {req}
    /\ IF mounted
       THEN /\ searchResults' = Answered(req.query, outcome).results
            /\ showResults' = Answered(req.query, outcome).open
            /\ isSearching' = FALSE
       ELSE UNCHANGED <<searchResults, showResults, isSearching>>
    /\ lastStep' = [what |-> IF mounted THEN outcome ELSE "late", before |-> searchResults]
    /\ UNCHANGED <<mounted, searchQuery, searchTimeout, timers, clock, keys, issued>>

\* handleLocationSelect: a click on an entry of the open result list
handleLocationSelect ==
    /\ mounted
    /\ showResults /\ Len(searchResults) > 0
    /\ PickSearch(FALSE)
    /\ searchQuery' = ""
    /\ searchResults' = <<>>
    /\ showResults' = FALSE
    /\ UNCHANGED <<mounted, isSearching, searchTimeout, timers, inflight, clock, keys, issued, lastStep>>

\* a teardown without the cleanup of the timer
Unmount_KeepsTimer ==
    /\ mounted
    /\ mounted' = FALSE
    /\ UNCHANGED <<searchQuery, searchResults, isSearching, showResults, searchTimeout, timers,
                   inflight, clock, keys, issued, lastStep>>

\* the panel is torn down: the cleanup clears the pending timer
Unmount ==
    /\ mounted
    /\ mounted' = FALSE
    /\ searchTimeout' = NoTimer
    /\ timers' = timers \ {searchTimeout}
    /\ UNCHANGED <<searchQuery, searchResults, isSearching, showResults, inflight, clock, keys, issued, lastStep>>

\* time passes
Tick ==
    /\ clock + TickMs <= MaxClock
    /\ \A timer \in timers : timer.due > clock
    /\ clock' = clock + TickMs
    /\ UNCHANGED <<mounted, searchQuery, searchResults, isSearching, showResults,
                   searchTimeout, timers, inflight, keys, issued, lastStep>>

NextSearch ==
    \/ Bootstrap /\ UNCHANGED <<now, outside>>
    \/ \E value \in Inputs : handleSearchChange(value) /\ UNCHANGED <<hook, geo, map, disk>>
    \/ TimerFires /\ UNCHANGED <<hook, geo, map, disk>>
    \/ \E req \in inflight, outcome \in Outcomes :
          SearchResponse(req, outcome) /\ UNCHANGED <<hook, geo, map, disk>>
    \/ handleLocationSelect /\ UNCHANGED <<geo, map, disk>>
    \/ Unmount /\ UNCHANGED <<hook, geo, map, disk>>
    \/ Tick /\ UNCHANGED <<hook, geo, map, disk>>

SpecSearch == Init /\ [][NextSearch]_vars

----------------------------------------------------------------------------
(* The device position: useCurrentLocation and the handlers of Dashboard    *)
(* that use it.  getCurrentPosition calls back once, at any later moment,   *)
(* with a fix or with an error (denial, or the timeout of 8 s).  The        *)
(* continuation of handleUseCurrent after its await calls the               *)
(* activateRegion of the render in which the button was clicked, which      *)
(* reads the activeId of that render.  The saved regions are selected and   *)
(* removed through their badges, so with ids of the saved list.             *)

\* an error callback that sets no fallback coordinates
GeoAnswers_NoFallback ==
    {[ok |-> TRUE, at |-> f] : f \in GeoFixes} \cup {[ok |-> FALSE, at |-> <<0, 0>>]}

\* how getCurrentPosition calls back: [ok, at]
GeoAnswers ==
    {[ok |-> TRUE, at |-> f] : f \in GeoFixes} \cup {[ok |-> FALSE, at |-> NYC_COORDINATES]}

\* the "Use my location" button is not disabled
UseCurrentEnabled == ~locating

\* activateRegion(region, {persist: false}) of a render in which activeId
\* was seen
activateRegionSeen(region, seen) ==
    /\ ~effectPending
    /\ lastOp' = Called("activateRegion", region.id)
    /\ temporary' = region
    /\ activeId' = IF seen # NullId THEN NullId ELSE activeId
    /\ justActivated' = NullId
    /\ effectPending' = TRUE
    /\ UNCHANGED <<regions, upserted>>

\* handleUseCurrent with the button never disabled
handleUseCurrent_NeverDisabled ==
    /\ requested < MaxRequests
    /\ requested' = requested + 1
    /\ IF ~hasGeolocation
       THEN /\ coords' = Some(NYC_COORDINATES)
            /\ locating' = FALSE
            /\ activateRegionSeen(regionFromCoordinates(NYC_COORDINATES[1], NYC_COORDINATES[2]), activeId)
            /\ lastAnswer' = "unsupported"
            /\ UNCHANGED pending
       ELSE /\ ~effectPending
            /\ locating' = TRUE
            /\ pending' = pending \cup {[n |-> requested + 1, seen |-> activeId]}
            /\ UNCHANGED <<hook, coords, lastAnswer>>
    /\ UNCHANGED hasGeolocation

\* handleUseCurrent up to its await: request() up to getCurrentPosition, or,
\* without navigator.geolocation, the whole of it
handleUseCurrent ==
    /\ UseCurrentEnabled
    /\ requested < MaxRequests
    /\ requested' = requested + 1
    /\ IF ~hasGeolocation
       THEN /\ coords' = Some(NYC_COORDINATES)
            /\ locating' = FALSE
            /\ activateRegionSeen(regionFromCoordinates(NYC_COORDINATES[1], NYC_COORDINATES[2]), activeId)
            /\ lastAnswer' = "unsupported"
            /\ UNCHANGED pending
       ELSE /\ ~effectPending
            /\ locating' = TRUE
            /\ pending' = pending \cup {[n |-> requested + 1, seen |-> activeId]}
            /\ UNCHANGED <<hook, coords, lastAnswer>>
    /\ UNCHANGED hasGeolocation

\* handleUseCurrent that drops the position when the active id has changed
\* since the click
GeoResult_SkipsWhenStoreChanged(req, answer) ==
    /\ req \in pending
    /\ pending' = pending \ {req}
    /\ coords' = Some(answer.at)
    /\ locating' = FALSE
    /\ IF req.seen = activeId
       THEN activateRegionSeen(regionFromCoordinates(answer.at[1], answer.at[2]), req.seen)
       ELSE /\ ~effectPending
            /\ effectPending' = TRUE
            /\ UNCHANGED <<store, lastOp, justActivated, upserted>>
    /\ lastAnswer' = IF answer.ok THEN "position" ELSE "error"
    /\ UNCHANGED <<hasGeolocation, requested>>

\* callbacks of getCurrentPosition without setLocating(false)
GeoResult_KeepsLocating(req, answer) ==
    /\ req \in pending
    /\ pending' = pending \ {req}
    /\ coords' = Some(answer.at)
    /\ activateRegionSeen(regionFromCoordinates(answer.at[1], answer.at[2]), req.seen)
    /\ lastAnswer' = IF answer.ok THEN "position" ELSE "error"
    /\ UNCHANGED <<hasGeolocation, requested, locating>>

\* getCurrentPosition calls back, and handleUseCurrent runs from its await
GeoResult(req, answer) ==
    /\ req \in pending
    /\ pending' = pending \ {req}
    /\ coords' = Some(answer.at)
    /\ locating' = FALSE
    /\ activateRegionSeen(regionFromCoordinates(answer.at[1], answer.at[2]), req.seen)
    /\ lastAnswer' = IF answer.ok THEN "position" ELSE "error"
    /\ UNCHANGED <<hasGeolocation, requested>>

\* the effect of Dashboard would activate the position
AutoActivates == coords # None /\ activeRegion = NullRegion

\* the effects of one committed render: the bootstrap effect of the hook,
\* then the effect of Dashboard, both reading the state of that render
DashboardEffects ==
    IF AutoActivates
    THEN /\ effectPending
         /\ lastOp' = [op |-> "Bootstrap", id |-> NullId, saved |-> FALSE, active |-> FALSE, len |-> 0]
         /\ temporary' = regionFromCoordinates(coords[1][1], coords[1][2])
         /\ regions' = IF temporary = NullRegion /\ activeId = NullId /\ regions = <<>>
                       THEN <<DEFAULT_REGION>> ELSE regions
         /\ activeId' = IF activeId # NullId THEN NullId
                        ELSE IF temporary # NullRegion THEN activeId
                        ELSE IF regions = <<>> THEN DEFAULT_REGION.id ELSE regions[1].id
         /\ justActivated' = IF regions' # regions THEN DEFAULT_REGION.id ELSE justActivated
         /\ upserted' = IF regions' # regions THEN <<DEFAULT_REGION.id>> ELSE upserted
         /\ effectPending' = TRUE
    ELSE Bootstrap

InitGeo ==
    /\ HookInit
    /\ PanelInit
    /\ GeoInit
    /\ MapInit
    /\ DiskInit
    /\ hasGeolocation \in BOOLEAN

NextGeo ==
    \/ DashboardEffects /\ UNCHANGED <<now, outside>>
    \/ handleUseCurrent /\ UNCHANGED <<now, panel, map, disk>>
    \/ \E req \in pending, answer \in GeoAnswers :
          GeoResult(req, answer) /\ UNCHANGED <<now, panel, map, disk>>
    \/ \E id \in CandidateIds : HasId(regions, id) /\ selectExisting(id) /\ UNCHANGED <<now, outside>>
    \/ \E id \in CandidateIds : HasId(regions, id) /\ removeRegion(id) /\ UNCHANGED <<now, outside>>
    \/ persistTemporary /\ UNCHANGED <<now, outside>>

SpecGeo == InitGeo /\ [][NextGeo]_vars

\* getCurrentPosition calls back once, with a position, an error or, 8 s
\* after it began to look for a position, a timeout, and the callback runs
\* when the handler and the effects before it are done; React runs the
\* effects of a committed render.
GeoCallback ==
    \E req \in pending, answer \in GeoAnswers :
        GeoResult(req, answer) /\ UNCHANGED <<now, panel, map, disk>>

SpecGeoFair ==
    /\ SpecGeo
    /\ SF_vars(GeoCallback)
    /\ WF_vars(DashboardEffects /\ UNCHANGED <<now, outside>>)

-----------------------------------------------------------------------------
(* The map of AqiMap.  center is the prop Dashboard passes; mapCenter,       *)
(* shouldUpdateCenter and userHasPanned are the state of AqiMap; view is    *)
(* the centre of the Leaflet map, which exists while center is not null.    *)
(* MapContainer creates the map at mapCenter when it mounts and renders its *)
(* children, MapCenterController and MapEventHandler, one render later.     *)
(*                                                                          *)
(* A render is committed in two steps, as React 18 (createRoot) runs them:  *)
(* first the cleanups of every effect whose dependencies changed, then the  *)
(* effects themselves, children before parents and siblings in order:       *)
(* MapCenterController, MapEventHandler, AqiMap.  handleMapMove is a new    *)
(* function in every render of AqiMap, so every render detaches the         *)
(* movestart listener in the first step and attaches the new one in the     *)
(* second, after MapCenterController has run.                               *)
(*                                                                          *)
(* map.setView fires movestart, synchronously, when it changes the view,    *)
(* and not when the map is at the centre asked for.  A pan or zoom by the   *)
(* user fires movestart as well.                                            *)

\* map.setView(target, map.getZoom()): the view after it, and whether
\* movestart was fired
setView(target) ==
    [view |-> Some(target), movestart |-> view # Some(target)]

\* MapCenterController is mounted and its effect runs in this commit
ControllerRuns == ready /\ (ctlDue \/ shouldUpdateCenter # prevShould)

\* the effect of AqiMap with userHasPanned as its only dependency
CenterEffectRuns_IgnoresCenter == userHasPanned # prevPanned

\* the effect of AqiMap runs in this commit
CenterEffectRuns == aqiDue \/ userHasPanned # prevPanned

\* state was set after the render that is being committed
Rerenders(panned, should, centerSet) ==
    panned # userHasPanned \/ should # shouldUpdateCenter \/ centerSet

\* a render that leaves the movestart listener of the render before attached
RenderCommit_KeepsListener ==
    /\ phase = "render"
    /\ phase' = "setups"
    /\ IF center = None
       THEN /\ view' = None
            /\ ready' = FALSE
            /\ listening' = FALSE
            /\ UNCHANGED ctlDue
       ELSE IF view = None
       THEN /\ view' = Some(mapCenter)
            /\ UNCHANGED <<ready, listening, ctlDue>>
       ELSE IF ~ready
       THEN /\ ready' = TRUE
            /\ ctlDue' = TRUE
            /\ UNCHANGED <<view, listening>>
       ELSE UNCHANGED <<view, ready, listening, ctlDue>>
    /\ UNCHANGED <<center, mapCenter, shouldUpdateCenter, userHasPanned, aqiDue,
                   prevShould, prevPanned, lastMove, gesture, userView>>

\* React renders AqiMap and commits: the map is removed when center is null
\* and created when it no longer is, the children of MapContainer mount one
\* render after the map, and the cleanup of MapEventHandler's effect runs
RenderCommit ==
    /\ phase = "render"
    /\ phase' = "setups"
    /\ IF center = None
       THEN /\ view' = None
            /\ ready' = FALSE
            /\ listening' = FALSE
            /\ UNCHANGED ctlDue
       ELSE IF view = None
       THEN /\ view' = Some(mapCenter)
            /\ UNCHANGED <<ready, listening, ctlDue>>
       ELSE IF ~ready
       THEN /\ ready' = TRUE
            /\ ctlDue' = TRUE
            /\ UNCHANGED <<view, listening>>
       ELSE /\ listening' = FALSE
            /\ UNCHANGED <<view, ready, ctlDue>>
    /\ UNCHANGED <<center, mapCenter, shouldUpdateCenter, userHasPanned, aqiDue,
                   prevShould, prevPanned, lastMove, gesture, userView>>

\* the effects of the committed render, in order: MapCenterController,
\* MapEventHandler, the effect of AqiMap
RunEffects ==
    /\ phase = "setups"
    /\ LET moves    == ControllerRuns /\ shouldUpdateCenter
           sv       == setView(mapCenter)
           heard    == moves /\ sv.movestart /\ listening
           follows  == CenterEffectRuns /\ center # None /\ ~userHasPanned
           panned   == userHasPanned \/ heard
           should   == IF CenterEffectRuns THEN follows
                       ELSE IF heard THEN FALSE ELSE shouldUpdateCenter
           mounting == view # None /\ ~ready
       IN /\ view' = IF moves THEN sv.view ELSE view
          /\ lastMove' = IF moves /\ sv.movestart THEN "system" ELSE lastMove
          /\ listening' = ready
          /\ userHasPanned' = panned
          /\ shouldUpdateCenter' = should
          /\ mapCenter' = IF follows THEN center[1] ELSE mapCenter
          /\ ctlDue' = follows
          /\ aqiDue' = FALSE
          /\ prevShould' = shouldUpdateCenter
          /\ prevPanned' = userHasPanned
          /\ phase' = IF Rerenders(panned, should, follows) \/ mounting
                      THEN "render" ELSE "idle"
    /\ UNCHANGED <<center, ready, gesture, userView>>

\* the user pans or zooms the map: Leaflet fires movestart, handleMapMove
UserMovesMap(to) ==
    /\ phase = "idle"
    /\ ready
    /\ view' = Some(to)
    /\ lastMove' = "user"
    /\ gesture' = "panned"
    /\ userView' = Some(to)
    /\ IF listening
       THEN /\ userHasPanned' = TRUE
            /\ shouldUpdateCenter' = FALSE
       ELSE UNCHANGED <<userHasPanned, shouldUpdateCenter>>
    /\ phase' = IF Rerenders(userHasPanned', shouldUpdateCenter', FALSE)
                THEN "render" ELSE "idle"
    /\ UNCHANGED <<center, mapCenter, ready, listening, ctlDue, aqiDue, prevShould, prevPanned>>

\* handleRecenterMap without setUserHasPanned(false)
handleRecenterMap_StaysPanned ==
    /\ phase = "idle"
    /\ userHasPanned /\ center # None
    /\ mapCenter' = center[1]
    /\ shouldUpdateCenter' = TRUE
    /\ ctlDue' = TRUE
    /\ gesture' = "recentered"
    /\ phase' = "render"
    /\ UNCHANGED <<center, view, ready, listening, aqiDue, prevShould, prevPanned, lastMove,
                   userView, userHasPanned>>

\* a click on Recenter, which is rendered while userHasPanned && center
handleRecenterMap ==
    /\ phase = "idle"
    /\ userHasPanned /\ center # None
    /\ mapCenter' = center[1]
    /\ shouldUpdateCenter' = TRUE
    /\ userHasPanned' = FALSE
    /\ ctlDue' = TRUE
    /\ gesture' = "recentered"
    /\ phase' = "render"
    /\ UNCHANGED <<center, view, ready, listening, aqiDue, prevShould, prevPanned, lastMove,
                   userView>>

\* Dashboard renders with another selection, or with none
SelectionChange(c) ==
    /\ phase \in {"idle", "render"}
    /\ c # center
    /\ center' = c
    /\ aqiDue' = TRUE
    /\ phase' = "render"
    /\ UNCHANGED <<mapCenter, shouldUpdateCenter, userHasPanned, view, ready, listening,
                   ctlDue, prevShould, prevPanned, lastMove, gesture, userView>>

\* Dashboard renders with the selection it had: focus is a new object
Refresh ==
    /\ phase = "idle"
    /\ center # None
    /\ aqiDue' = TRUE
    /\ phase' = "render"
    /\ UNCHANGED <<center, mapCenter, shouldUpdateCenter, userHasPanned, view, ready,
                   listening, ctlDue, prevShould, prevPanned, lastMove, gesture, userView>>

MapRender == RenderCommit /\ UNCHANGED <<hook, panel, geo, disk>>

MapEffects == RunEffects /\ UNCHANGED <<hook, panel, geo, disk>>

NextMap ==
    \/ MapRender
    \/ MapEffects
    \/ \E to \in MapPoints : UserMovesMap(to) /\ UNCHANGED <<hook, panel, geo, disk>>
    \/ handleRecenterMap /\ UNCHANGED <<hook, panel, geo, disk>>
    \/ \E c \in {None} \cup {Some(p) : p \in MapPoints} :
          SelectionChange(c) /\ UNCHANGED <<hook, panel, geo, disk>>
    \/ Refresh /\ UNCHANGED <<hook, panel, geo, disk>>

SpecMap == Init /\ [][NextMap]_vars

\* React commits a scheduled render and runs its effects
SpecMapFair == SpecMap /\ WF_vars(MapRender) /\ WF_vars(MapEffects)

\* handleRecenterMap with `if (center)` around setMapCenter alone
handleRecenterMapCall_ChecksCenterOnly ==
    /\ phase = "idle"
    /\ userHasPanned
    /\ mapCenter' = IF center # None THEN center[1] ELSE mapCenter
    /\ shouldUpdateCenter' = TRUE
    /\ userHasPanned' = FALSE
    /\ ctlDue' = TRUE
    /\ gesture' = IF center # None THEN "recentered" ELSE "recenter without center"
    /\ phase' = "render"
    /\ UNCHANGED <<center, view, ready, listening, aqiDue, prevShould, prevPanned, lastMove,
                   userView>>

\* handleRecenterMap called by whoever holds it, the Recenter button or not,
\* while the controller is PANNED: with center null, `if (center)` fails and
\* no state is set
handleRecenterMapCall ==
    /\ phase = "idle"
    /\ userHasPanned
    /\ IF center # None
       THEN handleRecenterMap
       ELSE /\ gesture' = "recenter without center"
            /\ UNCHANGED <<center, mapCenter, shouldUpdateCenter, userHasPanned, view, ready,
                           listening, phase, ctlDue, aqiDue, prevShould, prevPanned, lastMove,
                           userView>>

NextMapCalls ==
    \/ NextMap
    \/ handleRecenterMapCall /\ UNCHANGED <<hook, panel, geo, disk>>

\* the map, with handleRecenterMap called also while no button shows
SpecMapCalls == Init /\ [][NextMapCalls]_vars

-----------------------------------------------------------------------------
(* Properties of the store *)

NoDuplicateIds(list) ==
    \A i, j \in 1..Len(list) : i # j => list[i].id # list[j].id

\* the entries of list other than the one with this id, in their order
Others(list, id) == SelectSeq(list, LAMBDA x : x.id # id)

\* every region an operation can be called with
AllRegions ==
    {DEFAULT_REGION} \cup GeoRegions \cup {SearchRegion(t) : t \in 1..MaxPicks}

EmptyStorage == regions = <<>> /\ activeId = NullId /\ temporary = NullRegion

Seeded ==
    regions = <<DEFAULT_REGION>> /\ activeId = DEFAULT_REGION.id /\ temporary = NullRegion

\* C1: in every reachable state the saved list has at most MAX_REGIONS (6)
\* entries and no two of them share an id.
C1_CapAndUniqueIds ==
    Len(regions) <= MAX_REGIONS /\ NoDuplicateIds(regions)

\* activate with persist has just put a new id into a full list, and the list
\* is full still
C1_Witness ==
    /\ lastOp.op = "activateRegion" /\ temporary = NullRegion
    /\ lastOp.len = MAX_REGIONS /\ ~lastOp.saved
    /\ Len(regions) = MAX_REGIONS /\ regions[1].id = lastOp.id

\* C2: once the bootstrap effect has run and nothing is pending (a settled
\* state), currentSelection() is not null, whatever operations came before.
C2_SettledSelectionNonNull ==
    ~effectPending => activeRegion # NullRegion

\* a settled state after operations: the default region is saved no longer,
\* and the selection is a saved region
C2_Witness ==
    /\ ~effectPending /\ temporary = NullRegion
    /\ ~HasId(regions, DEFAULT_REGION.id)
    /\ HasId(regions, activeId) /\ activeRegion = Find(regions, activeId)

\* C3: whenever a temporary selection is set, currentSelection() is exactly
\* that region, whatever the saved list holds.
C3_TemporaryTakesPrecedence ==
    temporary # NullRegion => activeRegion = temporary

\* a temporary selection whose id is saved too, with other coordinates
C3_Witness ==
    /\ temporary # NullRegion
    /\ HasId(regions, temporary.id)
    /\ Find(regions, temporary.id) # temporary
    /\ activeRegion = temporary

\* C4: from empty storage the one step is the seeding of the default region
\* (list [default], active id the default's), and the effect that runs after
\* it settles with that state unchanged and the default as the selection.
C4_BootstrapSeedsDefault ==
    [][ /\ (EmptyStorage /\ effectPending) => (Seeded' /\ effectPending')
        /\ (Seeded /\ effectPending) =>
              (Seeded' /\ ~effectPending' /\ activeRegion' = DEFAULT_REGION) ]_vars

\* initialization has settled and nothing else has happened since
C4_Witness ==
    /\ Seeded /\ ~effectPending /\ now = 0
    /\ lastOp.op = "Bootstrap" /\ upserted = <<DEFAULT_REGION.id>>
    /\ activeRegion = DEFAULT_REGION

\* C5 as claimed, for the region the latest operation activated: it was
\* activated later than every other saved region, so it is the first entry.
C5_MostRecentlyActivatedFirst ==
    (justActivated # NullId /\ HasId(regions, justActivated))
        => regions[1].id = justActivated

\* C5 as amended: the saved list is in the order of the latest upsert of each
\* region (activate with persist, persistTemporary, the seeding), latest
\* first; selectExisting does not reorder it.
C5_MostRecentlyUpsertedFirst ==
    Ids(regions) = upserted

\* selectExisting has just activated a region that is not the first entry
C5_Witness ==
    /\ lastOp.op = "selectExisting"
    /\ activeId = lastOp.id
    /\ Len(regions) >= 2 /\ regions[1].id # activeId
    /\ Ids(regions) = upserted

\* a step that upserts region r: activate with persist, or persistTemporary
UpsertOf(r) ==
    \/ activateRegion(r, TRUE)
    \/ (r # NullRegion /\ temporary = r /\ persistTemporary)

\* C6: an upsert of a region whose id is saved puts the region first, keeps
\* the length and the order of the other entries; an upsert of a new id into
\* a full list puts it first, followed by the first MAX_REGIONS - 1 (5)
\* entries of the list before, in their order.
C6_UpsertMovesToFront ==
    [][\A r \in AllRegions : UpsertOf(r) =>
          /\ regions' # <<>> /\ regions'[1] = r
          /\ HasId(regions, r.id) =>
                /\ Len(regions') = Len(regions)
                /\ Others(regions', r.id) = Others(regions, r.id)
          /\ (~HasId(regions, r.id) /\ Len(regions) = MAX_REGIONS) =>
                Tail(regions') = SubSeq(regions, 1, MAX_REGIONS - 1) ]_vars

\* persistTemporary has just upserted an id that was saved, not as the first
\* entry's, with other coordinates
C6_Witness ==
    /\ lastOp.op = "persistTemporary" /\ lastOp.saved /\ ~lastOp.active
    /\ Len(regions) = lastOp.len /\ Len(regions) >= 3
    /\ regions[1].id = lastOp.id /\ regions[1] = regionFromCoordinates(407131, -740058)

\* C7 as claimed: a region leaves the saved list only in a remove of its id or
\* as the one evicted by an upsert of a new id into a full list, and the one
\* evicted is the least recently activated: never the region that the
\* operation before activated.
C7_EvictsLeastRecentlyActivated ==
    [][\A id \in CandidateIds : (HasId(regions, id) /\ ~HasId(regions', id)) =>
          \/ removeRegion(id)
          \/ /\ \E r \in AllRegions :
                   UpsertOf(r) /\ ~HasId(regions, r.id) /\ Len(regions) = MAX_REGIONS
             /\ id # justActivated ]_vars

\* C7 as amended: a region leaves the saved list only in a remove of its id or
\* as the one evicted by an upsert of a new id into a full list, and the one
\* evicted is the region whose latest upsert is the oldest.
C7_EvictsLeastRecentlyUpserted ==
    [][\A id \in CandidateIds : (HasId(regions, id) /\ ~HasId(regions', id)) =>
          \/ removeRegion(id)
          \/ /\ \E r \in AllRegions :
                   UpsertOf(r) /\ ~HasId(regions, r.id) /\ Len(regions) = MAX_REGIONS
             /\ upserted # <<>> /\ id = upserted[Len(upserted)] ]_vars

\* persistTemporary has just put a new id into a full list, which is as long
\* as before: the default region, seeded first, was evicted
C7_Witness ==
    /\ lastOp.op = "persistTemporary" /\ ~lastOp.saved /\ lastOp.len = MAX_REGIONS
    /\ Len(regions) = MAX_REGIONS /\ regions[1].id = lastOp.id
    /\ \A i \in 1..Len(regions) : regions[i].id = SearchRegion(now + 1 - i).id
    /\ now = MAX_REGIONS

\* C8: a remove of the active id takes the id out of the saved list, keeps
\* the order of the rest, and makes the first remaining entry's id the active
\* id, or null when nothing remains.
C8_RemoveActiveCascades ==
    [][\A id \in CandidateIds : (removeRegion(id) /\ activeId = id) =>
          /\ ~HasId(regions', id)
          /\ regions' = Others(regions, id)
          /\ activeId' = IF Others(regions, id) # <<>>
                         THEN Others(regions, id)[1].id ELSE NullId ]_vars

\* the active region, the first of several, has just been removed, and the
\* next one is active
C8_Witness ==
    /\ lastOp.op = "removeRegion" /\ lastOp.saved /\ lastOp.active
    /\ effectPending /\ temporary = NullRegion
    /\ Len(regions) = lastOp.len - 1 /\ Len(regions) >= 2
    /\ activeId = regions[1].id /\ upserted[1] = activeId

\* C9 as claimed: a remove of an id that is not saved changes neither the
\* saved list nor the active id nor the temporary selection.
C9_RemoveUnknownIsNoOp ==
    [][\A id \in CandidateIds : (removeRegion(id) /\ ~HasId(regions, id)) =>
          UNCHANGED <<regions, activeId, temporary>> ]_vars

\* C9 as amended: a remove of an id that is not saved changes neither the
\* saved list nor the active id; it clears the temporary selection when that
\* has the id, and leaves it alone otherwise.
C9_RemoveUnknownKeepsSaved ==
    [][\A id \in CandidateIds : (removeRegion(id) /\ ~HasId(regions, id)) =>
          /\ UNCHANGED <<regions, activeId>>
          /\ temporary' = IF temporary.id = id THEN NullRegion ELSE temporary ]_vars

\* a remove of an id that was not saved has just cleared the temporary
\* selection, the saved list as long as before
C9_Witness ==
    /\ lastOp.op = "removeRegion" /\ ~lastOp.saved
    /\ effectPending /\ temporary = NullRegion /\ activeId = NullId
    /\ Len(regions) = lastOp.len /\ Len(regions) >= 2

\* C10: selectExisting of an id that is not saved changes neither the saved
\* list nor the active id nor the temporary selection.
C10_SelectUnknownIsNoOp ==
    [][\A id \in CandidateIds : (selectExisting(id) /\ ~HasId(regions, id)) =>
          UNCHANGED <<regions, activeId, temporary>> ]_vars

\* a settled state with a temporary selection and a full list in which
\* selectExisting of an id that is not saved is a step, one that leaves the
\* state as it is
C10_Witness ==
    /\ ~effectPending /\ temporary # NullRegion /\ Len(regions) = MAX_REGIONS
    /\ \E id \in CandidateIds : ~HasId(regions, id) /\ ENABLED selectExisting(id)

\* C11: activate(region) with persist true or omitted leaves no temporary
\* selection, region as the first saved entry, its id as the active id, and
\* region as currentSelection().
C11_ActivatePersists ==
    [][\A r \in AllRegions : activateRegion(r, TRUE) =>
          /\ temporary' = NullRegion
          /\ regions' # <<>> /\ regions'[1] = r
          /\ activeId' = r.id
          /\ activeRegion' = r ]_vars

\* activate with persist has just put a fix first whose id was saved with
\* other coordinates, and the fix is the selection
C11_Witness ==
    /\ lastOp.op = "activateRegion" /\ lastOp.saved /\ ~lastOp.active
    /\ temporary = NullRegion /\ activeId = lastOp.id
    /\ Len(regions) >= 2 /\ regions[1].id = lastOp.id
    /\ activeRegion = regionFromCoordinates(407131, -740058)

C13_SelectSaved ==
    [][\A id \in CandidateIds : (selectExisting(id) /\ HasId(regions, id)) =>
          /\ temporary' = NullRegion
          /\ activeId' = id
          /\ activeRegion' = Find(regions, id)
          /\ regions' = regions ]_vars

\* selectExisting has just made the last of a full list the selection
C13_Witness ==
    /\ lastOp.op = "selectExisting" /\ lastOp.saved /\ ~lastOp.active
    /\ temporary = NullRegion /\ Len(regions) = MAX_REGIONS
    /\ activeId = regions[MAX_REGIONS].id /\ activeRegion = regions[MAX_REGIONS]

\* C14: with a temporary selection t, a persistTemporary step ends in the
\* store (saved list, active id, no temporary selection) that a step of
\* activate(t, persist=true) from the same state ends in; with none, it
\* leaves the whole state as it is.
C14_PersistTemporaryIsActivate ==
    [][persistTemporary =>
          IF temporary = NullRegion
          THEN UNCHANGED vars
          ELSE \E s \in {store'} :
                  ENABLED (activateRegion(temporary, TRUE) /\ store' = s) ]_vars

\* persistTemporary has just saved a temporary fix whose id was saved with
\* other coordinates, further down the list
C14_Witness ==
    /\ lastOp.op = "persistTemporary" /\ lastOp.saved
    /\ temporary = NullRegion /\ activeId = lastOp.id
    /\ Len(regions) = MAX_REGIONS /\ regions[1].id = lastOp.id
    /\ regions[1] = regionFromCoordinates(407128, -740060)

\* C15: clearTemporary leaves no temporary selection and the saved list as it
\* was; an active id that was null becomes the first saved region's id when
\* the list is not empty, and an active id that was set stays.
C15_ClearTemporaryFallsBack ==
    [][clearTemporary =>
          /\ temporary' = NullRegion
          /\ regions' = regions
          /\ (activeId = NullId /\ regions # <<>>) => activeId' = regions[1].id
          /\ activeId # NullId => activeId' = activeId ]_vars

\* clearTemporary has just dropped the temporary selection and made the
\* first of several saved regions active
C15_Witness ==
    /\ lastOp.op = "clearTemporary" /\ ~lastOp.active
    /\ temporary = NullRegion /\ Len(regions) >= 2
    /\ activeId = regions[1].id /\ justActivated = NullId /\ effectPending

-----------------------------------------------------------------------------
(* Properties of the search box *)

\* the keystrokes "a" at 0 ms, "ab" at 100 ms and "abc" at 400 ms, and no other
ThreeKeystrokes ==
    keys = << [at |-> 0, value |-> "a"], [at |-> 100, value |-> "ab"],
              [at |-> 400, value |-> "abc"] >>

\* the timer armed by the keystroke at 400 ms has fired
LastTimerFired == clock >= 700 /\ searchTimeout = NoTimer

\* C16 as stated: after keystrokes "a" at 0 ms, "ab" at 100 ms and "abc" at
\* 400 ms, exactly one search request has been issued, for "abc" at 700 ms.
C16_ExactlyOneRequest ==
    (mounted /\ ThreeKeystrokes /\ LastTimerFired) =>
        issued = << [at |-> 700, query |-> "abc"] >>

\* C16: after keystrokes "a" at 0 ms, "ab" at 100 ms and "abc" at 400 ms, the
\* last search request is for "abc" at 700 ms and none is for "a"; it is the
\* only request unless the timer armed at 100 ms, due at 400 ms, fired before
\* the keystroke at 400 ms was handled, and then a request for "ab" at 400 ms
\* precedes it.
C16_LastRequestAfterQuietTime ==
    (mounted /\ ThreeKeystrokes /\ LastTimerFired) =>
        \/ issued = << [at |-> 700, query |-> "abc"] >>
        \/ issued = << [at |-> 400, query |-> "ab"], [at |-> 700, query |-> "abc"] >>

\* the three keystrokes were made, the keystroke at 400 ms cancelled the timer
\* of "ab", and the one request, for "abc", went out at 700 ms
C16_Witness ==
    /\ mounted /\ ThreeKeystrokes /\ LastTimerFired
    /\ issued = << [at |-> 700, query |-> "abc"] >>

\* a request issued after req has been answered already
NewerAnswered(req) ==
    \E m \in 1..Len(issued) : m > req.n /\ m \notin InFlightNumbers

\* C17: the answer of a search request that arrives after the answer of a
\* request issued later does not change the result list on display: the list
\* stays the one of the latest request answered.
C17_StaleResponseDropped ==
    [][\A req \in inflight : \A outcome \in Outcomes :
          (mounted /\ NewerAnswered(req) /\ SearchResponse(req, outcome)) =>
              UNCHANGED <<searchResults, showResults>> ]_vars

-----------------------------------------------------------------------------
(* Properties of the device position *)

-----------------------------------------------------------------------------
(* Properties of the map.  The controller is FOLLOWING while userHasPanned  *)
(* is false and PANNED while it is true.                                    *)

\* C19: a step that takes the controller from FOLLOWING to PANNED is a pan
\* or zoom by the user; no setView of the controller, whether it follows a
\* change of the selection or a recenter, does it.
C19_OnlyUserGesturePans ==
    [][(~userHasPanned /\ userHasPanned') =>
          \E to \in MapPoints : UserMovesMap(to) ]_vars

\* after a recenter, setView has moved the map, and the controller has
\* settled FOLLOWING
C19_Witness ==
    /\ phase = "idle" /\ gesture = "recentered" /\ lastMove = "system"
    /\ ~userHasPanned /\ listening
    /\ view = center /\ view # Some(NYC_COORDINATES)

\* C20: while the user has not panned since the start or the latest recenter,
\* a selection at coordinates c leads, by renders and effects alone, to the
\* map being at c with the controller settled FOLLOWING, unless the selection
\* changes again or the user pans first.
C20_FollowsSelection ==
    \A c \in MapPoints :
        (center = Some(c) /\ gesture # "panned")
            ~> \/ (view = Some(c) /\ mapCenter = c /\ ~userHasPanned /\ phase = "idle")
               \/ center # Some(c)
               \/ gesture = "panned"

\* with no pan or recenter made, the map has been moved by setView to a
\* selection that is not where the map started, and the controller has
\* settled FOLLOWING
C20_Witness ==
    /\ phase = "idle" /\ gesture = "none" /\ lastMove = "system"
    /\ center = Some(<<340522, -1182437>>) /\ view = center
    /\ mapCenter = <<340522, -1182437>> /\ ~userHasPanned /\ shouldUpdateCenter

\* C21: while the controller is PANNED and a map is shown, the map is where
\* the user's pan left it and the controller's centre is the one it had: no
\* change of the selection moves either.
C21_PannedViewportStays ==
    /\ []((userHasPanned /\ view # None) => view = userView)
    /\ [][(userHasPanned /\ userHasPanned') => mapCenter' = mapCenter]_vars

\* C22: a step that takes the controller from PANNED to FOLLOWING is a
\* recenter; from a recenter until the user's next gesture the controller is
\* FOLLOWING, and once its renders have settled with a selection, the
\* controller's centre and the map are at the selection's coordinates.
C22_OnlyRecenterFollows ==
    /\ [][(userHasPanned /\ ~userHasPanned') => handleRecenterMap]_vars
    /\ [](gesture = "recentered" => ~userHasPanned)
    /\ []((gesture = "recentered" /\ phase = "idle" /\ center # None) =>
              (mapCenter = center[1] /\ view = center))

\* the user panned to another place, clicked Recenter, and the map has
\* settled back at the selection, FOLLOWING
C22_Witness ==
    /\ gesture = "recentered" /\ phase = "idle" /\ ~userHasPanned /\ shouldUpdateCenter
    /\ center = Some(NYC_COORDINATES) /\ view = center /\ mapCenter = NYC_COORDINATES
    /\ userView = Some(<<418781, -876298>>)

\* the region handleUseCurrent builds from the fallback coordinates
FallbackRegion == regionFromCoordinates(407128, -740060)

\* C23: a position request that fails, by the error callback (denial or
\* timeout) or for want of navigator.geolocation, sets the coordinates to the
\* fallback (40.7128, -74.006), leaves the locating flag false, and goes on
\* to select the region of the fallback like a fix.
C23_FailureFallsBack ==
    [][/\ \A req \in pending : \A answer \in GeoAnswers :
             (GeoResult(req, answer) /\ ~answer.ok) =>
                 (coords' = Some(<<407128, -740060>>) /\ ~locating'
                  /\ temporary' = FallbackRegion)
       /\ (handleUseCurrent /\ ~hasGeolocation) =>
                 (coords' = Some(<<407128, -740060>>) /\ ~locating'
                  /\ temporary' = FallbackRegion) ]_vars

\* after a fix elsewhere, a second request has ended in the error callback:
\* the coordinates and the temporary selection are the fallback
C23_Witness ==
    /\ hasGeolocation /\ requested = 2 /\ lastAnswer = "error" /\ pending = {}
    /\ ~locating /\ coords = Some(NYC_COORDINATES) /\ temporary = FallbackRegion

\* C24: in every reachable state the locating flag is true exactly when a
\* position request is outstanding: it is never true without one, and it is
\* true for as long as a request, made while no other was outstanding, has
\* not called back.
C24_LocatingIffOutstanding ==
    /\ locating <=> pending # {}
    /\ Cardinality(pending) <= 1

\* the second position request is outstanding and the flag is true, with the
\* result of the first applied
C24_Witness ==
    /\ locating /\ pending # {} /\ requested = 2 /\ lastAnswer = "position"
    /\ coords # None /\ ~effectPending

-----------------------------------------------------------------------------
(* Properties of the search box: short queries, failures and teardown *)

\* C25: when the debounce timer fires with a query of fewer than 2
\* characters, no search request is issued and the result list becomes
\* empty and closed.
C25_ShortQueryNoRequest ==
    [][(TimerFires /\ Len(searchTimeout.value) < MIN_QUERY) =>
          /\ issued' = issued
          /\ inflight' = inflight
          /\ searchResults' = <<>>
          /\ ~showResults' ]_vars

\* the timer fired for "a" while the results of "ab" were listed: the one
\* request made is the one for "ab", and the list is empty
C25_Witness ==
    /\ mounted
    /\ lastStep = [what |-> "short", before |-> <<"ab">>]
    /\ searchResults = <<>> /\ ~showResults
    /\ Len(issued) = 1 /\ inflight = {}

\* C26: a search request that ends in a failure (network error, status that
\* is not a success, body that cannot be parsed) leaves the result list empty
\* and closed and the searching flag false, and changes nothing else: not the
\* saved list, the active id or the temporary selection.
C26_FailedSearchEmptiesList ==
    [][\A req \in inflight :
          (mounted /\ SearchResponse(req, "error")) =>
              /\ searchResults' = <<>>
              /\ ~showResults'
              /\ ~isSearching'
              /\ UNCHANGED <<store, searchQuery, searchTimeout, mounted>> ]_vars

\* a request failed while the results of an earlier one were listed
C26_Witness ==
    /\ mounted
    /\ lastStep = [what |-> "error", before |-> <<"ab">>]
    /\ searchResults = <<>> /\ ~showResults /\ ~isSearching
    /\ Len(issued) = 2

\* C27: once the panel is torn down no debounce timer is pending, and no
\* search request is issued from then on.
C27_NoRequestAfterTeardown ==
    /\ [](~mounted => searchTimeout = NoTimer)
    /\ [][~mounted => issued' = issued]_vars

\* the panel was torn down while the timer of "ab" was pending, the time at
\* which it was due has passed, and no request was made
C27_Witness ==
    /\ ~mounted
    /\ keys = << [at |-> 0, value |-> "ab"] >>
    /\ clock >= DEBOUNCE_MS + TickMs
    /\ issued = <<>> /\ searchTimeout = NoTimer

-----------------------------------------------------------------------------
(* Properties of the storage *)

\* a mutation called op can take the store to s with its writes succeeding
\* (ok) or failing
MutationTo(s, op, ok) ==
    ENABLED (Mutation(ok, ok) /\ UNCHANGED <<panel, geo, map>>
                /\ store' = s /\ lastOp' = op)

\* C29: a write to the storage that fails during a mutation of the store
\* does not undo the mutation: whatever a mutation makes of the saved list,
\* the active id and the temporary selection, the same mutation makes of
\* them both when its writes succeed and when they fail and leave the
\* storage as it was: a step that wrote both keys has a twin that wrote
\* neither, and a step with a failed write has a twin that wrote both.
C29_FailedWriteKeepsMutation ==
    [][lastOp'.op # "reload" =>
          \E s \in {store'}, op \in {lastOp'} :
              IF storedRegions' = regions' /\ storedActive' = activeId'
              THEN MutationTo(s, op, FALSE)
              ELSE MutationTo(s, op, TRUE) ]_vars

\* a picked search result was saved and made active while both writes
\* failed: the storage still holds the default region alone
C29_Witness ==
    /\ lastOp.op = "activateRegion" /\ lastOp.id = SearchRegion(1).id
    /\ regions = <<SearchRegion(1), DEFAULT_REGION>>
    /\ activeId = SearchRegion(1).id
    /\ temporary = NullRegion
    /\ storedRegions = <<DEFAULT_REGION>>
    /\ storedActive = DEFAULT_REGION.id

\* the ids activated without persist and never upserted
UnsavedOnly == tempIds \ savedIds

\* C30: the temporary selection is never written to the storage: no region
\* that was activated without persist only is in the stored list or is the
\* stored active id, and a store constructed again from the storage has no
\* temporary selection and no such region in its saved list.
C30_TemporaryNeverStored ==
    /\ [](\A i \in 1..Len(storedRegions) : storedRegions[i].id \notin UnsavedOnly)
    /\ [](storedActive \notin UnsavedOnly)
    /\ [][Reload =>
            /\ temporary' = NullRegion
            /\ regions' = storedRegions
            /\ \A i \in 1..Len(regions') : regions'[i].id \notin UnsavedOnly ]_vars

\* the page was loaded again while a picked search result was the temporary
\* selection: the selection is gone and the region is not in the saved list
C30_Witness ==
    /\ lastOp.op = "reload" /\ lastOp.id = SearchRegion(1).id
    /\ lastOp.id \in UnsavedOnly
    /\ temporary = NullRegion
    /\ Len(regions) > 0 /\ ~HasId(regions, lastOp.id)
    /\ activeId # lastOp.id

-----------------------------------------------------------------------------
(* Properties of the ids of device positions *)

\* x rounded to 3 decimal places, as a number of 1e-3 degree
Round3(x) == IF x >= 0 THEN (x + 5) \div 10 ELSE -((-x + 5) \div 10)

\* two regions are of fixes that agree after rounding to 3 decimal places
SameRounded(r, q) ==
    Round3(r.lat) = Round3(q.lat) /\ Round3(r.lon) = Round3(q.lon)

\* the regions of device positions in the saved list or the selection
HeldFixes ==
    {r \in {regions[i] : i \in 1..Len(regions)} \cup {temporary} : r.id[1] = "geo"}

\* C31: two device positions whose latitudes and longitudes agree after
\* rounding to 3 decimal places get the same region id, so the saved list
\* holds at most one entry for them, the temporary selection included when
\* it is saved; positions that differ in a rounded coordinate get different
\* ids.
C31_NearFixesCollapse ==
    /\ \A i, j \in 1..Len(regions) :
          (regions[i].id[1] = "geo" /\ regions[j].id[1] = "geo"
              /\ SameRounded(regions[i], regions[j])) => i = j
    /\ \A r, q \in HeldFixes :
          /\ SameRounded(r, q) => r.id = q.id
          /\ ~SameRounded(r, q) => r.id # q.id

-----------------------------------------------------------------------------
(* Properties of the search box: the debounce *)

\* C32: at most one debounce timer is pending at any time, and every search
\* request is issued for the value of the latest keystroke, 300 ms or more
\* after that keystroke.
C32_OneTimerLatestValue ==
    /\ [](Cardinality(timers) <= 1)
    /\ [][issued' # issued =>
            /\ Len(keys) > 0
            /\ issued'[Len(issued')].query = keys[Len(keys)].value
            /\ clock >= keys[Len(keys)].at + DEBOUNCE_MS ]_vars

\* "abc" was typed 200 ms after "ab": the timer of "ab" was cleared, and the
\* one request went out for "abc" 300 ms after its keystroke
C32_Witness ==
    /\ keys = << [at |-> 0, value |-> "ab"], [at |-> 200, value |-> "abc"] >>
    /\ issued = << [at |-> 500, query |-> "abc"] >>
    /\ timers = {} /\ searchTimeout = NoTimer

-----------------------------------------------------------------------------
(* Properties of the store: the active id, the settled states, the frame *)

\* C33: in every state reached from empty storage by the operations of the
\* hook and its bootstrap effect, an active id that is not null is the id of
\* a region of the saved list; an upsert that evicts at the cap evicts
\* another region than the one it makes active.
C33_ActiveIdIsSaved ==
    activeId # NullId => HasId(regions, activeId)

\* a region with a new id was activated with persist while the list was
\* full: one region was evicted, and the active one is the first of the list
C33_Witness ==
    /\ lastOp.op = "activateRegion" /\ ~lastOp.saved /\ lastOp.len = MAX_REGIONS
    /\ Len(regions) = MAX_REGIONS
    /\ activeId = lastOp.id /\ regions[1].id = activeId
    /\ temporary = NullRegion

\* C34: in every settled state a temporary selection that is not null has
\* the active id null beside it: no handler and no effect, the bootstrap
\* effect and the effect of Dashboard that activates the device position
\* included, leaves both set.
C34_TemporaryExcludesActive ==
    (~effectPending /\ temporary # NullRegion) => activeId = NullId

\* C35: the bootstrap effect reaches a fixed point in at most two runs after
\* a mutation.  A run that finds no temporary selection and no active id
\* makes the first saved region active, or, the list being empty, seeds the
\* default region and makes it active; either way it leaves an active id, so
\* the next run changes nothing and is the last; a run that finds a
\* temporary selection or an active id changes nothing and is the last.  In
\* a settled state the effect has nothing to do.
C35_BootstrapFixedPoint ==
    /\ [][Bootstrap =>
            /\ (temporary = NullRegion /\ activeId = NullId /\ Len(regions) > 0) =>
                  (activeId' = regions[1].id /\ UNCHANGED <<regions, temporary>>)
            /\ (temporary = NullRegion /\ activeId = NullId /\ regions = <<>>) =>
                  (regions' = <<DEFAULT_REGION>> /\ activeId' = DEFAULT_REGION.id
                      /\ UNCHANGED temporary)
            /\ (temporary # NullRegion \/ activeId # NullId) =>
                  (UNCHANGED store /\ ~effectPending')
            /\ (temporary' # NullRegion \/ activeId' # NullId) ]_vars
    /\ [](~effectPending => (temporary # NullRegion \/ activeId # NullId))

\* the saved regions were all removed after a search result had been
\* picked, and the effect has seeded the default region again
C35_Witness ==
    /\ lastOp.op = "Bootstrap" /\ effectPending
    /\ now >= 1
    /\ justActivated = DEFAULT_REGION.id
    /\ regions = <<DEFAULT_REGION>> /\ activeId = DEFAULT_REGION.id
    /\ temporary = NullRegion

-----------------------------------------------------------------------------
(* Properties of the device position: completion *)

-----------------------------------------------------------------------------
(* Properties of the search box: the pick and the searching flag *)

\* a result was picked and no key has been pressed since: only the pick
\* makes the value of the input empty
PickedAndIdle == searchQuery = "" /\ keys # <<>>

\* C37: from the pick of a search result to the next keystroke no search
\* request is issued and the result list stays empty, also when a debounce
\* timer was pending at the pick.
C37_NoSearchAfterPick ==
    /\ [](PickedAndIdle => searchResults = <<>>)
    /\ [][PickedAndIdle => issued' = issued]_vars

\* C38: while the panel is mounted the searching flag is true exactly when a
\* search request is in flight, also when two requests overlap and are
\* answered at different times.
C38_SearchingIffInFlight ==
    mounted => (isSearching <=> inflight # {})

\* C39: a temporary selection stays as it is when a region with another id
\* is removed; it is cleared only by persistTemporary, clearTemporary,
\* activateRegion with persist, selectExisting of a saved id and the removal
\* of its own id, and it is replaced only by activateRegion without persist.
C39_TemporaryFrame ==
    [][temporary # NullRegion =>
          /\ \A id \in CandidateIds :
                (removeRegion(id) /\ id # temporary.id) => temporary' = temporary
          /\ temporary' = NullRegion =>
                \/ lastOp'.op \in {"persistTemporary", "clearTemporary"}
                \/ lastOp'.op = "activateRegion" /\ justActivated' = lastOp'.id
                \/ lastOp'.op = "selectExisting" /\ lastOp'.saved
                \/ lastOp'.op = "removeRegion" /\ lastOp'.id = temporary.id
          /\ (temporary' # NullRegion /\ temporary' # temporary) =>
                /\ lastOp'.op = "activateRegion"
                /\ temporary'.id = lastOp'.id
                /\ justActivated' = NullId ]_vars

\* a saved region was removed while a region with another id was the
\* temporary selection, which is still live
C39_Witness ==
    /\ lastOp.op = "removeRegion" /\ lastOp.saved
    /\ ~HasId(regions, lastOp.id)
    /\ temporary # NullRegion /\ temporary.id # lastOp.id
    /\ Len(regions) > 0

\* C40: once the effects have settled PANNED, shouldUpdateCenter is false;
\* an effect of MapCenterController that calls setView runs in a render that
\* is FOLLOWING; and handleRecenterMap with a null center leaves
\* userHasPanned, shouldUpdateCenter, mapCenter and the map as they were.
C40_PannedNeverUpdates ==
    /\ []((phase = "idle" /\ userHasPanned) => ~shouldUpdateCenter)
    /\ [][(RunEffects /\ ControllerRuns /\ shouldUpdateCenter) => ~userHasPanned]_vars
    /\ [][(handleRecenterMapCall /\ center = None) =>
             UNCHANGED <<userHasPanned, shouldUpdateCenter, mapCenter, view, phase>>]_vars

\* the user panned, the selection went away, and handleRecenterMap was
\* called with the null center: the controller is still PANNED and settled
C40_Witness ==
    /\ gesture = "recenter without center" /\ center = None
    /\ phase = "idle" /\ userHasPanned /\ ~shouldUpdateCenter
    /\ userView # None

====
